---- MODULE Spec2Model ----
(***************************************************************************)
(* Model of the four benchmark entry points of the repository:             *)
(*   run_benchmark   (src/benchmarks/run_benchmark.py)                     *)
(*   run_throughput  (src/run_throughput.py)                               *)
(*   run_compliance  (src/run_compliance.py)                               *)
(*   run_memory_test (src/run_memory.py)                                   *)
(* Each entry point is a sequential script; pc is its position.  One run   *)
(* executes one entry point (prog).                                        *)
(***************************************************************************)
EXTENDS Integers, Sequences, FiniteSets, TLC

(***************************************************************************)
(* Bounds of the model.                                                    *)
(***************************************************************************)
\* rows of the loose collection (VECTORS / VECTOR_COUNT scaled down)
NumVectors == 1
\* scalars per row (DIMS / DIMENSIONS scaled down)
NumDims == 1
\* random.random() is sampled at two values, 0 and MaxScalar (in units of half
\* a float32 step, so that odd values are not representable in float32)
MaxScalar == 3
\* time.perf_counter() advances by 0..MaxTick between two readings
MaxTick == 1

(***************************************************************************)
(* Program constants.                                                      *)
(***************************************************************************)
ITERATIONS == 50

\* optional values: <<>> is an unset name, <<x>> a name bound to x
NoneV == <<>>
Some(x) == <<x>>
Val(o) == o[1]

Programs == {"benchmark", "throughput", "compliance", "memory"}

VARIABLES
    prog,             \* the entry point this run executes
    pc,               \* position in the script
    err,              \* the exception propagating out of the entry point, or "none"
    out,              \* what console.print has emitted, in order
    table,            \* the rows of the results Table
    now,              \* the monotonic clock
    raw_data, fast_buffer, query,
    converted_array,  \* run_benchmark's converted_array; run_throughput's first `_`
    scratch,          \* the `_` that receives np.dot's result
    i,                \* the loop counter of run_throughput
    start_time, end_time, duration_std, duration_mut,
    qps_std, qps_mut,   \* run_throughput's rates; qps_std also holds run_benchmark's speedup
    \* history of the run, not program state
    region,           \* the timed region that is open: "none", "std" or "mut"
    readings,         \* the clock readings taken, in order
    convs, dots,      \* conversions / kernel calls made inside each timed region
    kernel_args,      \* per region, the (buffer, query) pairs the kernel was applied to
    setup_in_region,  \* TRUE once a setup step ran while a timed region was open
    inputs_at_start,  \* raw_data, fast_buffer and query as the first clock reading found them
    nextId,           \* identity of the next array object allocated
    \* run_compliance
    mock_request, original_val, binary_data, restored_val, delta, status, prec_table,
    \* run_memory_test
    host,             \* the interpreter build the script runs on
    py_data,          \* the allocated capacity of the outer list and of each row
    py_size_bytes, py_size_mb, mutatis_size_bytes, mutatis_size_mb

ctlVars == <<prog, pc, err>>
ioVars == <<out, table>>
dataVars == <<raw_data, fast_buffer, query>>
tmpVars == <<converted_array, scratch, i>>
timeVars == <<now, start_time, end_time, duration_std, duration_mut, qps_std, qps_mut>>
histVars == <<region, readings, convs, dots, kernel_args, setup_in_region,
             inputs_at_start>>
compVars == <<mock_request, original_val, binary_data, restored_val, delta, status, prec_table>>
memVars == <<host, py_data, py_size_bytes, py_size_mb, mutatis_size_bytes, mutatis_size_mb>>
timingVars == <<dataVars, tmpVars, timeVars, histVars, nextId>>
vars == <<ctlVars, ioVars, timingVars, compVars, memVars>>

(***************************************************************************)
(* Data: loose vectors, packed buffers, the kernel.                        *)
(***************************************************************************)
Scalars == {0, MaxScalar}

\* how far the monotonic clock moves between two consecutive readings
Ticks == 0..MaxTick

LooseVectors == [1..NumVectors -> [1..NumDims -> Scalars]]

\* the cast to float32: round to the nearest representable value (the even
\* numbers), ties to the one with an even significand
Narrow(x) ==
    IF x % 2 = 0 THEN x
    ELSE IF ((x - 1) \div 2) % 2 = 0 THEN x - 1 ELSE x + 1

\* np.array(raw, dtype=np.float32): visits every scalar, row-major
ToPacked(raw) == [r \in DOMAIN raw |-> [c \in DOMAIN raw[r] |-> Narrow(raw[r][c])]]

\* np.random.random(DIMS).astype(np.float32)
QueryVectors == {[c \in 1..NumDims |-> Narrow(q[c])] : q \in [1..NumDims -> Scalars]}

RECURSIVE SumProd(_, _, _)
SumProd(row, q, n) == IF n = 0 THEN 0 ELSE row[n] * q[n] + SumProd(row, q, n - 1)

\* np.dot(buffer, query): one inner product per row
Dot(buf, q) == [r \in DOMAIN buf |-> SumProd(buf[r], q, Len(q))]

Ratio(n, d) == [num |-> n, den |-> d]

\* position of label p in a statement order, and the statement after it
RECURSIVE IndexOf(_, _, _)
IndexOf(order, p, k) == IF order[k] = p THEN k ELSE IndexOf(order, p, k + 1)
After(order, p) == order[IndexOf(order, p, 1) + 1]

(***************************************************************************)
(* Steps shared by the two timing scripts.                                 *)
(***************************************************************************)
\* an exception raised by a step: nothing catches it, the entry point ends
Propagate(e) ==
    /\ err' = e
    /\ pc' = "halt"
    /\ UNCHANGED <<compVars, memVars, prog, ioVars, dataVars, tmpVars, timeVars, histVars, nextId>>

\* a setup step is recorded when it runs while a timed region is open
NoteSetup == setup_in_region' = (setup_in_region \/ region # "none")

\* a conversion / a kernel call is counted against the open region, if any
CountIn(f) == IF region = "none" THEN f ELSE [f EXCEPT ![region] = @ + 1]

\* the kernel's operands are recorded against the open region, if any
NoteKernel(buf, q) ==
    IF region = "none" THEN kernel_args
    ELSE [kernel_args EXCEPT ![region] = @ \cup {[buffer |-> buf, query |-> q]}]

\* a new array object holding the packed contents of raw
NewBuffer(raw) == [id |-> nextId, data |-> ToPacked(raw)]

(***************************************************************************)
(* run_throughput                                                          *)
(***************************************************************************)
\* a variant of T_Order: the query vector is generated after the first start reading
T_OrderLateQuery == <<"T19", "T20", "T23", "T27", "T21", "T30", "T31", "T32",
                      "T36", "T39", "T40", "T44", "done">>

T_Order == <<"T19", "T20", "T21", "T23", "T27", "T30", "T31", "T32",
             "T36", "T39", "T40", "T44", "done">>

T_At(p) == prog = "throughput" /\ pc = p
T_Goto == pc' = After(T_Order, pc)

\* raw_data = [[random.random() ...] ...]
T_GenRaw ==
    /\ T_At("T19")
    /\ \E d \in LooseVectors : raw_data' = Some(d)
    /\ NoteSetup
    /\ T_Goto
    /\ UNCHANGED <<compVars, memVars, prog, err, ioVars, fast_buffer, query, tmpVars, timeVars,
                   region, readings, inputs_at_start, convs, dots, kernel_args, nextId>>

\* fast_buffer = np.array(raw_data, dtype=np.float32)
T_BuildFast ==
    /\ T_At("T20")
    /\ \/ /\ fast_buffer' = Some(NewBuffer(Val(raw_data)))
          /\ nextId' = nextId + 1
          /\ convs' = CountIn(convs)
          /\ NoteSetup
          /\ T_Goto
          /\ UNCHANGED <<compVars, memVars, prog, err, ioVars, raw_data, query, tmpVars, timeVars,
                         region, readings, inputs_at_start, dots, kernel_args>>
       \/ Propagate("MemoryError")

\* query = np.random.random(DIMS).astype(np.float32)
T_GenQuery ==
    /\ T_At("T21")
    /\ \E q \in QueryVectors : query' = Some(q)
    /\ NoteSetup
    /\ T_Goto
    /\ UNCHANGED <<compVars, memVars, prog, err, ioVars, raw_data, fast_buffer, tmpVars, timeVars,
                   region, readings, inputs_at_start, convs, dots, kernel_args, nextId>>

\* console.clear(); console.print(Panel(...))
T_Header ==
    /\ T_At("T23")
    /\ out' = <<"panel">>
    /\ T_Goto
    /\ UNCHANGED <<compVars, memVars, prog, err, table, dataVars, tmpVars, timeVars, histVars, nextId>>

\* start = time.perf_counter(), opening the region of architecture a
T_Start(p, a) ==
    /\ T_At(p)
    /\ \E d \in Ticks :
          /\ now' = now + d
          /\ start_time' = Some(now + d)
          /\ readings' = Append(readings, now + d)
    /\ inputs_at_start' = IF readings = <<>> THEN Some(dataVars) ELSE inputs_at_start
    /\ region' = a
    /\ i' = 0
    /\ T_Goto
    /\ UNCHANGED <<compVars, memVars, prog, err, ioVars, dataVars, converted_array, scratch, end_time,
                   duration_std, duration_mut, qps_std, qps_mut,
                   convs, dots, kernel_args, setup_in_region, nextId>>

T_StdStart == T_Start("T27", "std")

\* a variant of T_StdConvert: the packed buffer built during setup is reused
\* instead of converting again
T_StdConvertCached ==
    /\ T_At("T30")
    /\ converted_array' = fast_buffer
    /\ T_Goto
    /\ UNCHANGED <<compVars, memVars, prog, err, ioVars, dataVars, scratch, i, timeVars,
                   histVars, nextId>>

\* _ = np.array(raw_data, dtype=np.float32)
T_StdConvert ==
    /\ T_At("T30")
    /\ \/ /\ converted_array' = Some(NewBuffer(Val(raw_data)))
          /\ nextId' = nextId + 1
          /\ convs' = CountIn(convs)
          /\ T_Goto
          /\ UNCHANGED <<compVars, memVars, prog, err, ioVars, dataVars, scratch, i, timeVars,
                         region, readings, inputs_at_start, dots, kernel_args, setup_in_region>>
       \/ Propagate("MemoryError")

\* _ = np.dot(fast_buffer, query), then the loop's next round or its end
T_Dot(p) ==
    /\ T_At(p)
    /\ \/ /\ scratch' = Some(Dot(Val(fast_buffer).data, Val(query)))
          /\ dots' = CountIn(dots)
          /\ kernel_args' = NoteKernel(Val(fast_buffer), Val(query))
          /\ i' = i + 1
          /\ pc' = IF i + 1 < ITERATIONS THEN (IF p = "T31" THEN "T30" ELSE p)
                   ELSE After(T_Order, p)
          /\ UNCHANGED <<compVars, memVars, prog, err, ioVars, dataVars, converted_array, timeVars,
                         region, readings, inputs_at_start, convs, setup_in_region, nextId>>
       \/ Propagate("MemoryError")

T_StdDot == T_Dot("T31")

\* duration_std = time.perf_counter() - start; qps_std = ITERATIONS / duration_std
T_StdStop ==
    /\ T_At("T32")
    /\ \E d \in Ticks :
          /\ now' = now + d
          /\ readings' = Append(readings, now + d)
          /\ duration_std' = Some(now + d - Val(start_time))
          /\ IF now + d - Val(start_time) = 0
             THEN /\ err' = "ZeroDivisionError"
                  /\ pc' = "halt"
                  /\ qps_std' = qps_std
             ELSE /\ err' = err
                  /\ T_Goto
                  /\ qps_std' = Some(Ratio(ITERATIONS, now + d - Val(start_time)))
    /\ region' = "none"
    /\ UNCHANGED <<compVars, memVars, prog, ioVars, dataVars, tmpVars, start_time, end_time, duration_mut, qps_mut,
                   convs, dots, kernel_args, setup_in_region, inputs_at_start, nextId>>

\* a variant of T_MutStart: a new query vector is drawn for the second test
T_MutStartFreshQuery ==
    /\ T_At("T36")
    /\ \E d \in Ticks :
          /\ now' = now + d
          /\ start_time' = Some(now + d)
          /\ readings' = Append(readings, now + d)
    /\ inputs_at_start' = IF readings = <<>> THEN Some(dataVars) ELSE inputs_at_start
    /\ \E q \in QueryVectors : query' = Some(q)
    /\ region' = "mut"
    /\ i' = 0
    /\ T_Goto
    /\ UNCHANGED <<compVars, memVars, prog, err, ioVars, raw_data, fast_buffer,
                   converted_array, scratch, end_time,
                   duration_std, duration_mut, qps_std, qps_mut,
                   convs, dots, kernel_args, setup_in_region, nextId>>

T_MutStart == T_Start("T36", "mut")

T_MutDot == T_Dot("T39")

\* a variant of T_MutStop: the duration is taken from the run's first reading
T_MutStopFromFirst ==
    /\ T_At("T40")
    /\ \E d \in Ticks :
          /\ now' = now + d
          /\ readings' = Append(readings, now + d)
          /\ duration_mut' = Some(now + d - readings[1])
          /\ IF now + d - readings[1] = 0
             THEN /\ err' = "ZeroDivisionError"
                  /\ pc' = "halt"
                  /\ qps_mut' = qps_mut
             ELSE /\ err' = err
                  /\ T_Goto
                  /\ qps_mut' = Some(Ratio(ITERATIONS, now + d - readings[1]))
    /\ region' = "none"
    /\ UNCHANGED <<compVars, memVars, prog, ioVars, dataVars, tmpVars, start_time, end_time,
                   duration_std, qps_std,
                   convs, dots, kernel_args, setup_in_region, inputs_at_start, nextId>>

\* duration_mut = time.perf_counter() - start; qps_mut = ITERATIONS / duration_mut
T_MutStop ==
    /\ T_At("T40")
    /\ \E d \in Ticks :
          /\ now' = now + d
          /\ readings' = Append(readings, now + d)
          /\ duration_mut' = Some(now + d - Val(start_time))
          /\ IF now + d - Val(start_time) = 0
             THEN /\ err' = "ZeroDivisionError"
                  /\ pc' = "halt"
                  /\ qps_mut' = qps_mut
             ELSE /\ err' = err
                  /\ T_Goto
                  /\ qps_mut' = Some(Ratio(ITERATIONS, now + d - Val(start_time)))
    /\ region' = "none"
    /\ UNCHANGED <<compVars, memVars, prog, ioVars, dataVars, tmpVars, start_time, end_time, duration_std, qps_std,
                   convs, dots, kernel_args, setup_in_region, inputs_at_start, nextId>>

\* the results table, its two rows, console.print(table), the closing line
T_Report ==
    /\ T_At("T44")
    /\ table' = <<[arch |-> "Standard RAG", time |-> Val(duration_std), qps |-> Val(qps_std)],
                  [arch |-> "Mutatis Core", time |-> Val(duration_mut), qps |-> Val(qps_mut)]>>
    /\ out' = out \o <<"table", "result">>
    /\ T_Goto
    /\ UNCHANGED <<compVars, memVars, prog, err, dataVars, tmpVars, timeVars, histVars, nextId>>

T_Next ==
    \/ T_GenRaw \/ T_BuildFast \/ T_GenQuery \/ T_Header
    \/ T_StdStart \/ T_StdConvert \/ T_StdDot \/ T_StdStop
    \/ T_MutStart \/ T_MutDot \/ T_MutStop \/ T_Report

(***************************************************************************)
(* run_benchmark                                                           *)
(***************************************************************************)
\* a variant of B_Order: the standard row is added as soon as its duration is known
B_OrderEarlyRow == <<"B24", "B36", "B38", "B40", "B42", "B50", "B53", "B55", "B57",
                     "B71", "B61", "B64", "B66", "B80", "B85", "B93", "B96", "B98", "done">>

B_Order == <<"B24", "B36", "B38", "B40", "B42", "B50", "B53", "B55", "B57",
             "B61", "B64", "B66", "B71", "B80", "B85", "B93", "B96", "B98", "done">>

B_At(p) == prog = "benchmark" /\ pc = p
B_Goto == pc' = After(B_Order, pc)

\* console.clear(); the title panel; the target-load line
B_Header ==
    /\ B_At("B24")
    /\ out' = <<"panel", "target">>
    /\ B_Goto
    /\ UNCHANGED <<compVars, memVars, prog, err, table, dataVars, tmpVars, timeVars, histVars, nextId>>

\* raw_data = generate_bloat()
B_GenRaw ==
    /\ B_At("B36")
    /\ \E d \in LooseVectors : raw_data' = Some(d)
    /\ NoteSetup
    /\ B_Goto
    /\ UNCHANGED <<compVars, memVars, prog, err, ioVars, fast_buffer, query, tmpVars, timeVars,
                   region, readings, inputs_at_start, convs, dots, kernel_args, nextId>>

\* fast_buffer = np.array(raw_data, dtype=DATA_TYPE)
B_BuildFast ==
    /\ B_At("B38")
    /\ \/ /\ fast_buffer' = Some(NewBuffer(Val(raw_data)))
          /\ nextId' = nextId + 1
          /\ convs' = CountIn(convs)
          /\ NoteSetup
          /\ B_Goto
          /\ UNCHANGED <<compVars, memVars, prog, err, ioVars, raw_data, query, tmpVars, timeVars,
                         region, readings, inputs_at_start, dots, kernel_args>>
       \/ Propagate("MemoryError")

\* query = np.random.random(DIMENSIONS).astype(DATA_TYPE)
B_GenQuery ==
    /\ B_At("B40")
    /\ \E q \in QueryVectors : query' = Some(q)
    /\ NoteSetup
    /\ B_Goto
    /\ UNCHANGED <<compVars, memVars, prog, err, ioVars, raw_data, fast_buffer, tmpVars, timeVars,
                   region, readings, inputs_at_start, convs, dots, kernel_args, nextId>>

\* table = Table(...) and its columns: no row yet
B_Table ==
    /\ B_At("B42")
    /\ table' = <<>>
    /\ B_Goto
    /\ UNCHANGED <<compVars, memVars, prog, err, out, dataVars, tmpVars, timeVars, histVars, nextId>>

\* start_time = time.perf_counter(), opening the region of architecture a
B_Start(p, a) ==
    /\ B_At(p)
    /\ \E d \in Ticks :
          /\ now' = now + d
          /\ start_time' = Some(now + d)
          /\ readings' = Append(readings, now + d)
    /\ inputs_at_start' = IF readings = <<>> THEN Some(dataVars) ELSE inputs_at_start
    /\ region' = a
    /\ B_Goto
    /\ UNCHANGED <<compVars, memVars, prog, err, ioVars, dataVars, tmpVars, end_time,
                   duration_std, duration_mut, qps_std, qps_mut,
                   convs, dots, kernel_args, setup_in_region, nextId>>

B_StdStart == B_Start("B50", "std")

\* converted_array = np.array(raw_data, dtype=DATA_TYPE)
B_StdConvert ==
    /\ B_At("B53")
    /\ \/ /\ converted_array' = Some(NewBuffer(Val(raw_data)))
          /\ nextId' = nextId + 1
          /\ convs' = CountIn(convs)
          /\ B_Goto
          /\ UNCHANGED <<compVars, memVars, prog, err, ioVars, dataVars, scratch, i, timeVars,
                         region, readings, inputs_at_start, dots, kernel_args, setup_in_region>>
       \/ Propagate("MemoryError")

\* _ = np.dot(buf, query)
B_Dot(p, buf) ==
    /\ B_At(p)
    /\ \/ /\ scratch' = Some(Dot(Val(buf).data, Val(query)))
          /\ dots' = CountIn(dots)
          /\ kernel_args' = NoteKernel(Val(buf), Val(query))
          /\ B_Goto
          /\ UNCHANGED <<compVars, memVars, prog, err, ioVars, dataVars, converted_array, i, timeVars,
                         region, readings, inputs_at_start, convs, setup_in_region, nextId>>
       \/ Propagate("MemoryError")

B_StdDot == B_Dot("B55", converted_array)

\* end_time = time.perf_counter(), closing the open region
B_End(p) ==
    /\ B_At(p)
    /\ \E d \in Ticks :
          /\ now' = now + d
          /\ end_time' = Some(now + d)
          /\ readings' = Append(readings, now + d)
          /\ IF p = "B57"
             THEN /\ duration_std' = Some((now + d - Val(start_time)) * 1000)
                  /\ duration_mut' = duration_mut
             ELSE /\ duration_mut' = Some((now + d - Val(start_time)) * 1000)
                  /\ duration_std' = duration_std
    /\ region' = "none"
    /\ B_Goto
    /\ UNCHANGED <<compVars, memVars, prog, err, ioVars, dataVars, tmpVars, start_time, qps_std, qps_mut,
                   convs, dots, kernel_args, setup_in_region, inputs_at_start, nextId>>

\* end_time = ...; duration_std = (end_time - start_time) * 1000
B_StdStop == B_End("B57")

B_MutStart == B_Start("B61", "mut")

B_MutDot == B_Dot("B64", fast_buffer)

\* end_time = ...; duration_mutatis = (end_time - start_time) * 1000
B_MutStop == B_End("B66")

\* table.add_row("Standard RAG", ...)
B_StdRow ==
    /\ B_At("B71")
    /\ table' = Append(table, [arch |-> "Standard RAG", ms |-> Val(duration_std), bars |-> 40])
    /\ B_Goto
    /\ UNCHANGED <<compVars, memVars, prog, err, out, dataVars, tmpVars, timeVars, histVars, nextId>>

\* width = int((duration_mutatis / duration_std) * 40), at least 1
B_Width ==
    /\ B_At("B80")
    /\ IF Val(duration_std) = 0
       THEN /\ err' = "ZeroDivisionError"
            /\ pc' = "halt"
            /\ i' = i
       ELSE /\ err' = err
            /\ B_Goto
            /\ i' = IF (Val(duration_mut) * 40) \div Val(duration_std) < 1 THEN 1
                    ELSE (Val(duration_mut) * 40) \div Val(duration_std)
    /\ UNCHANGED <<compVars, memVars, prog, ioVars, dataVars, converted_array, scratch, timeVars,
                   histVars, nextId>>

\* table.add_row("Mutatis Core", ...)
B_MutRow ==
    /\ B_At("B85")
    /\ table' = Append(table, [arch |-> "Mutatis Core", ms |-> Val(duration_mut), bars |-> i])
    /\ B_Goto
    /\ UNCHANGED <<compVars, memVars, prog, err, out, dataVars, tmpVars, timeVars, histVars, nextId>>

\* console.print(table)
B_PrintTable ==
    /\ B_At("B93")
    /\ out' = Append(out, "table")
    /\ B_Goto
    /\ UNCHANGED <<compVars, memVars, prog, err, table, dataVars, tmpVars, timeVars, histVars, nextId>>

\* speedup = duration_std / duration_mutatis
B_Speedup ==
    /\ B_At("B96")
    /\ IF Val(duration_mut) = 0
       THEN /\ err' = "ZeroDivisionError"
            /\ pc' = "halt"
            /\ qps_std' = qps_std
       ELSE /\ err' = err
            /\ B_Goto
            /\ qps_std' = Some(Ratio(Val(duration_std), Val(duration_mut)))
    /\ UNCHANGED <<compVars, memVars, prog, ioVars, dataVars, tmpVars, now, start_time, end_time,
                   duration_std, duration_mut, qps_mut, histVars, nextId>>

\* console.print(Panel(... FINAL ANALYSIS ...))
B_Panel ==
    /\ B_At("B98")
    /\ out' = Append(out, "conclusion")
    /\ B_Goto
    /\ UNCHANGED <<compVars, memVars, prog, err, table, dataVars, tmpVars, timeVars, histVars, nextId>>

B_Next ==
    \/ B_Header \/ B_GenRaw \/ B_BuildFast \/ B_GenQuery \/ B_Table
    \/ B_StdStart \/ B_StdConvert \/ B_StdDot \/ B_StdStop
    \/ B_MutStart \/ B_MutDot \/ B_MutStop
    \/ B_StdRow \/ B_Width \/ B_MutRow \/ B_PrintTable \/ B_Speedup \/ B_Panel

(***************************************************************************)
(* run_compliance: the schema check                                        *)
(***************************************************************************)
\* VECTOR_SCHEMA's minItems and maxItems
MinItems == 1536
MaxItems == 1536

JsonTypes == {"string", "number", "boolean", "null", "object", "array"}

\* A JSON instance handed to the validator.  kind is the instance's own type,
\* fields the keys it has, idType and payloadType the types of those values,
\* and the "vector" value is vecType with len elements, all numbers except
\* those at the positions odd, which are of type oddType.
ElemType(r, k) == IF k \in r.odd THEN r.oddType ELSE "number"

\* generate_vector(): 1536 floats; the request run_compliance builds
ShippedRequest ==
    [kind |-> "object", fields |-> {"id", "vector", "payload"}, idType |-> "string",
     vecType |-> "array", len |-> 1536, odd |-> {}, oddType |-> "number",
     payloadType |-> "object"]

\* the instances the validator is exercised on: the shipped request and its
\* one-defect variants, and a record without the optional payload
Requests ==
    {ShippedRequest}
    \cup {[ShippedRequest EXCEPT !.kind = "array"]}
    \cup {[ShippedRequest EXCEPT !.fields = f] :
            f \in {{"id", "vector"}, {"vector", "payload"}, {"id", "payload"}, {}}}
    \cup {[ShippedRequest EXCEPT !.idType = t] : t \in {"number", "null"}}
    \cup {[ShippedRequest EXCEPT !.vecType = t] : t \in {"string", "object"}}
    \cup {[ShippedRequest EXCEPT !.len = n] : n \in {0, 1535, 1537}}
    \cup {[ShippedRequest EXCEPT !.odd = {k}, !.oddType = t] :
            k \in {1, 768, 1536}, t \in {"string", "boolean", "null"}}
    \cup {[ShippedRequest EXCEPT !.len = 1535, !.odd = {1535}, !.oddType = "string"]}
    \cup {[ShippedRequest EXCEPT !.payloadType = t] : t \in {"string", "array"}}

\* a variant of Violations: the schema without its minItems keyword
ViolationsNoMinItems(r) ==
    (IF r.kind # "object" THEN {"type"} ELSE {})
    \cup (IF r.kind = "object" /\ "id" \in r.fields /\ r.idType # "string"
          THEN {"id.type"} ELSE {})
    \cup (IF r.kind = "object" /\ "vector" \in r.fields /\ r.vecType # "array"
          THEN {"vector.type"} ELSE {})
    \cup (IF r.kind = "object" /\ "vector" \in r.fields /\ r.vecType = "array"
             /\ \E k \in 1..r.len : ElemType(r, k) # "number"
          THEN {"vector.items"} ELSE {})
    \cup (IF r.kind = "object" /\ "vector" \in r.fields /\ r.vecType = "array"
             /\ r.len > MaxItems
          THEN {"vector.maxItems"} ELSE {})
    \cup (IF r.kind = "object" /\ "payload" \in r.fields /\ r.payloadType # "object"
          THEN {"payload.type"} ELSE {})
    \cup (IF r.kind = "object" /\ ~({"id", "vector"} \subseteq r.fields)
          THEN {"required"} ELSE {})

\* the keywords of VECTOR_SCHEMA that the instance r violates
Violations(r) ==
    (IF r.kind # "object" THEN {"type"} ELSE {})
    \cup (IF r.kind = "object" /\ "id" \in r.fields /\ r.idType # "string"
          THEN {"id.type"} ELSE {})
    \cup (IF r.kind = "object" /\ "vector" \in r.fields /\ r.vecType # "array"
          THEN {"vector.type"} ELSE {})
    \cup (IF r.kind = "object" /\ "vector" \in r.fields /\ r.vecType = "array"
             /\ \E k \in 1..r.len : ElemType(r, k) # "number"
          THEN {"vector.items"} ELSE {})
    \cup (IF r.kind = "object" /\ "vector" \in r.fields /\ r.vecType = "array"
             /\ r.len < MinItems
          THEN {"vector.minItems"} ELSE {})
    \cup (IF r.kind = "object" /\ "vector" \in r.fields /\ r.vecType = "array"
             /\ r.len > MaxItems
          THEN {"vector.maxItems"} ELSE {})
    \cup (IF r.kind = "object" /\ "payload" \in r.fields /\ r.payloadType # "object"
          THEN {"payload.type"} ELSE {})
    \cup (IF r.kind = "object" /\ ~({"id", "vector"} \subseteq r.fields)
          THEN {"required"} ELSE {})

\* jsonschema.validate(instance, VECTOR_SCHEMA): returns, or raises ValidationError
Validate(r) == IF Violations(r) = {} THEN "ok" ELSE "ValidationError"

C_Order == <<"C39", "C45", "C55", "C64", "C71", "C84", "C100", "C103", "done">>

C_At(p) == prog = "compliance" /\ pc = p
C_Goto == pc' = After(C_Order, pc)

\* console.clear(); the title panel; the TEST 1 heading
C_Header ==
    /\ C_At("C39")
    /\ out' = <<"panel", "test1">>
    /\ C_Goto
    /\ UNCHANGED <<prog, err, table, timingVars, compVars, memVars>>

\* mock_request = {...}; table = Table(...) with its two columns
C_Build ==
    /\ C_At("C45")
    /\ \E r \in Requests : mock_request' = Some(r)
    /\ table' = <<>>
    /\ C_Goto
    /\ UNCHANGED <<prog, err, out, timingVars, original_val, binary_data, restored_val,
                   delta, status, prec_table, memVars>>

\* try: validate, three PASS rows / except Exception: print the failure, return
C_Validate ==
    /\ C_At("C55")
    /\ IF Validate(Val(mock_request)) = "ok"
       THEN /\ table' = <<[check |-> "JSON Structure", status |-> "PASS"],
                          [check |-> "Dimension Count (1536)", status |-> "PASS"],
                          [check |-> "Type Safety (Float)", status |-> "PASS"]>>
            /\ out' = out
            /\ C_Goto
       ELSE /\ table' = table
            /\ out' = Append(out, "SCHEMA FAILURE")
            /\ pc' = "done"
    /\ UNCHANGED <<prog, err, timingVars, compVars, memVars>>

\* console.print(table); the TEST 2 heading
C_PrintTable ==
    /\ C_At("C64")
    /\ out' = out \o <<"table", "test2">>
    /\ C_Goto
    /\ UNCHANGED <<prog, err, table, timingVars, compVars, memVars>>

(***************************************************************************)
(* run_compliance: the precision check                                     *)
(*                                                                         *)
(* A Python float (IEEE 754 binary64) is [exp, hi, lo]: the value          *)
(* (hi * 2^29 + lo) * 2^(exp - 52), hi the leading 24 bits of its 53-bit   *)
(* significand and lo the 29 bits below them.                              *)
(***************************************************************************)
RECURSIVE Pow2(_)
Pow2(n) == IF n = 0 THEN 1 ELSE 2 * Pow2(n - 1)

\* original_val = 0.123456789123456789  (0x1.f9add37c1215ep-4)
OriginalVal == [exp |-> -4, hi |-> 16570089, lo |-> 398532958]

\* the literal 1e-7  (0x1.ad7f29abcaf48p-24)
Threshold == [exp |-> -24, hi |-> 14073748, lo |-> 448573256]

\* the values the audit is exercised on: the shipped one; 2.0000001 and its
\* successor, either side of the threshold; 2^24 + 1, a tie; the double
\* below 2.0, whose rounding carries into the exponent; a tie that rounds up
AuditValues ==
    {OriginalVal,
     [exp |-> 1, hi |-> Pow2(23), lo |-> 225179981],
     [exp |-> 1, hi |-> Pow2(23), lo |-> 225179982],
     [exp |-> 24, hi |-> Pow2(23), lo |-> Pow2(28)],
     [exp |-> 0, hi |-> Pow2(24) - 1, lo |-> Pow2(29) - 1],
     [exp |-> 0, hi |-> Pow2(23) + 1, lo |-> Pow2(28)]}

\* struct.pack('<f', v): round to the nearest binary32, ties to even
Pack(v) ==
    IF v.lo > Pow2(28) \/ (v.lo = Pow2(28) /\ v.hi % 2 = 1)
    THEN IF v.hi + 1 = Pow2(24)
         THEN [exp |-> v.exp + 1, sig |-> Pow2(23)]
         ELSE [exp |-> v.exp, sig |-> v.hi + 1]
    ELSE [exp |-> v.exp, sig |-> v.hi]

\* struct.unpack('<f', b)[0]: the binary32 widened to a Python float, exactly
Unpack(b) == [exp |-> b.exp, hi |-> b.sig, lo |-> 0]

Abs(x) == IF x < 0 THEN -x ELSE x

\* abs(a - b) for a value and its binary32 neighbour: t * 2^scale, exact
AbsDiff(a, b) ==
    [scale |-> a.exp - 52,
     t |-> Abs((a.hi - b.hi * Pow2(b.exp - a.exp)) * Pow2(29) + (a.lo - b.lo))]

\* d < th, for the difference d = t * 2^scale and the binary64 th, th.lo > 0:
\* t * 2^k < M  with  M = th.hi * 2^29 + th.lo  and  k = scale + 52 - th.exp
LessThan(d, th) ==
    LET k == d.scale + 52 - th.exp
    IN IF d.t = 0 \/ k <= 23 THEN TRUE
       ELSE IF k >= 53 THEN FALSE
       ELSE IF k >= 29 THEN d.t <= th.hi \div Pow2(k - 29)
       ELSE d.t <= th.hi * Pow2(29 - k) + (th.lo - 1) \div Pow2(k)

\* "PASS" if delta < 1e-7 else "FAIL"
StatusOf(d) == IF LessThan(d, Threshold) THEN "PASS" ELSE "FAIL"

\* original_val; binary_data = struct.pack(...); restored_val = struct.unpack(...);
\* delta = abs(original_val - restored_val)
C_Audit ==
    /\ C_At("C71")
    /\ \E v \in AuditValues :
          /\ original_val' = Some(v)
          /\ binary_data' = Some(Pack(v))
          /\ restored_val' = Some(Unpack(Pack(v)))
          /\ delta' = Some(AbsDiff(v, Unpack(Pack(v))))
    /\ C_Goto
    /\ UNCHANGED <<prog, err, ioVars, timingVars, mock_request, status, prec_table, memVars>>

\* prec_table and its three rows, the last carrying status
C_PrecTable ==
    /\ C_At("C84")
    /\ status' = Some(StatusOf(Val(delta)))
    /\ prec_table' = <<[metric |-> "Input Value (Py)", value |-> Val(original_val)],
                       [metric |-> "Stored Value (WASM)", value |-> Val(restored_val)],
                       [metric |-> "Precision Delta",
                        value |-> [delta |-> Val(delta), status |-> StatusOf(Val(delta))]]>>
    /\ C_Goto
    /\ UNCHANGED <<prog, err, ioVars, timingVars, mock_request, original_val, binary_data,
                   restored_val, delta, memVars>>

\* console.print(prec_table)
C_PrintPrec ==
    /\ C_At("C100")
    /\ out' = Append(out, "prec_table")
    /\ C_Goto
    /\ UNCHANGED <<prog, err, table, timingVars, compVars, memVars>>

\* the final panel
C_Stamp ==
    /\ C_At("C103")
    /\ out' = Append(out, "COMPLIANCE VERIFIED")
    /\ C_Goto
    /\ UNCHANGED <<prog, err, table, timingVars, compVars, memVars>>

C_Next ==
    \/ C_Header \/ C_Build \/ C_Validate \/ C_PrintTable
    \/ C_Audit \/ C_PrecTable \/ C_PrintPrec \/ C_Stamp

(***************************************************************************)
(* run_memory_test                                                         *)
(***************************************************************************)
VECTORS == 10000
DIMS == 1536
\* the list comprehension may leave up to MaxOver spare slots in a list
MaxOver == 1

\* the interpreter builds the script may run on: the size of a float object,
\* of a pointer, of an empty list's own fields, and of the collector's header
\* that sys.getsizeof adds to __sizeof__ (64-bit and 32-bit CPython)
Hosts ==
    {[floatSize |-> 24, ptr |-> 8, listBase |-> 40, gc |-> 16],
     [floatSize |-> 16, ptr |-> 4, listBase |-> 20, gc |-> 8]}

\* list.__sizeof__() and sys.getsizeof(list) for a list of capacity cap
Sizeof(h, cap) == h.listBase + h.ptr * cap
Getsizeof(h, cap) == Sizeof(h, cap) + h.gc

\* np.zeros((rows, cols), dtype=np.float32).nbytes
Nbytes(rows, cols) == rows * cols * 4

\* the footprint of the loose representation, line 33
PySize(h, d) == Sizeof(h, d.outer) + VECTORS * Getsizeof(h, d.row) + VECTORS * DIMS * 24

M_Order == <<"M17", "M27", "M32", "M33", "M34", "M39", "M44", "M60", "M63", "M71", "done">>

M_At(p) == prog = "memory" /\ pc = p
M_Goto == pc' = After(M_Order, pc)

\* console.clear(); the title panel; the "Allocating" line
M_Header ==
    /\ M_At("M17")
    /\ out' = <<"panel", "allocating">>
    /\ M_Goto
    /\ UNCHANGED <<prog, err, table, timingVars, compVars, memVars>>

\* py_data = [[random.random() ...] ...]
M_Alloc ==
    /\ M_At("M27")
    /\ \E o \in 0..MaxOver, r \in 0..MaxOver :
          py_data' = Some([outer |-> VECTORS + o, row |-> DIMS + r])
    /\ M_Goto
    /\ UNCHANGED <<prog, err, ioVars, timingVars, compVars, host, py_size_bytes,
                   py_size_mb, mutatis_size_bytes, mutatis_size_mb>>

\* py_size_bytes = sys.getsizeof(py_data) + VECTORS * sys.getsizeof(py_data[0]) + ...
M_SizeBytes ==
    /\ M_At("M32")
    /\ py_size_bytes' = Some(Getsizeof(Val(host), Val(py_data).outer)
                             + VECTORS * Getsizeof(Val(host), Val(py_data).row)
                             + VECTORS * DIMS * 24)
    /\ M_Goto
    /\ UNCHANGED <<prog, err, ioVars, timingVars, compVars, host, py_data,
                   py_size_mb, mutatis_size_bytes, mutatis_size_mb>>

\* py_size_mb = py_data.__sizeof__() + sum(sys.getsizeof(i) for i in py_data) + ...
M_SizeSum ==
    /\ M_At("M33")
    /\ py_size_mb' = Some(Ratio(PySize(Val(host), Val(py_data)), 1))
    /\ M_Goto
    /\ UNCHANGED <<prog, err, ioVars, timingVars, compVars, host, py_data,
                   py_size_bytes, mutatis_size_bytes, mutatis_size_mb>>

\* py_size_mb = py_size_mb / (1024 * 1024)
M_SizeMb ==
    /\ M_At("M34")
    /\ py_size_mb' = Some(Ratio(Val(py_size_mb).num, 1024 * 1024))
    /\ M_Goto
    /\ UNCHANGED <<prog, err, ioVars, timingVars, compVars, host, py_data,
                   py_size_bytes, mutatis_size_bytes, mutatis_size_mb>>

\* mutatis_buffer = np.zeros(...); mutatis_size_bytes = .nbytes; mutatis_size_mb = ...
M_Buffer ==
    /\ M_At("M39")
    /\ mutatis_size_bytes' = Some(Nbytes(VECTORS, DIMS))
    /\ mutatis_size_mb' = Some(Ratio(Nbytes(VECTORS, DIMS), 1024 * 1024))
    /\ M_Goto
    /\ UNCHANGED <<prog, err, ioVars, timingVars, compVars, host, py_data,
                   py_size_bytes, py_size_mb>>

\* table = Table(...) and its two rows; both footprints are in MB, the waste
\* factor is their quotient
M_Rows ==
    /\ M_At("M44")
    /\ table' = <<[arch |-> "Standard (Python Objects)", footprint |-> Val(py_size_mb),
                   waste |-> Ratio(Val(py_size_mb).num, Val(mutatis_size_mb).num)],
                  [arch |-> "Mutatis (Zero-Copy)", footprint |-> Val(mutatis_size_mb),
                   waste |-> Ratio(0, 1)]>>
    /\ M_Goto
    /\ UNCHANGED <<prog, err, out, timingVars, compVars, memVars>>

\* console.print(table)
M_Print ==
    /\ M_At("M60")
    /\ out' = Append(out, "table")
    /\ M_Goto
    /\ UNCHANGED <<prog, err, table, timingVars, compVars, memVars>>

\* the two bars
M_Bars ==
    /\ M_At("M63")
    /\ out' = out \o <<"bar_standard", "bar_mutatis">>
    /\ M_Goto
    /\ UNCHANGED <<prog, err, table, timingVars, compVars, memVars>>

\* the FINANCIAL IMPACT panel
M_Panel ==
    /\ M_At("M71")
    /\ out' = Append(out, "impact")
    /\ M_Goto
    /\ UNCHANGED <<prog, err, table, timingVars, compVars, memVars>>

M_Next ==
    \/ M_Header \/ M_Alloc \/ M_SizeBytes \/ M_SizeSum \/ M_SizeMb
    \/ M_Buffer \/ M_Rows \/ M_Print \/ M_Bars \/ M_Panel

EntryPoint == [p \in Programs |->
    CASE p = "throughput" -> "T19"
      [] p = "benchmark" -> "B24"
      [] p = "compliance" -> "C39"
      [] p = "memory" -> "M17"]

Init ==
    /\ prog \in Programs
    /\ pc = EntryPoint[prog]
    /\ err = "none"
    /\ out = <<>>
    /\ table = <<>>
    /\ now = 0
    /\ raw_data = NoneV /\ fast_buffer = NoneV /\ query = NoneV
    /\ converted_array = NoneV /\ scratch = NoneV /\ i = 0
    /\ start_time = NoneV /\ end_time = NoneV /\ duration_std = NoneV /\ duration_mut = NoneV
    /\ qps_std = NoneV /\ qps_mut = NoneV
    /\ region = "none"
    /\ readings = <<>>
    /\ convs = [a \in {"std", "mut"} |-> 0]
    /\ dots = [a \in {"std", "mut"} |-> 0]
    /\ kernel_args = [a \in {"std", "mut"} |-> {}]
    /\ setup_in_region = FALSE
    /\ inputs_at_start = NoneV
    /\ nextId = 1
    /\ mock_request = NoneV /\ original_val = NoneV /\ binary_data = NoneV
    /\ restored_val = NoneV /\ delta = NoneV /\ status = NoneV /\ prec_table = <<>>
    /\ host \in (IF prog = "memory" THEN {Some(h) : h \in Hosts} ELSE {NoneV})
    /\ py_data = NoneV /\ py_size_bytes = NoneV /\ py_size_mb = NoneV
    /\ mutatis_size_bytes = NoneV /\ mutatis_size_mb = NoneV

Next == T_Next \/ B_Next \/ C_Next \/ M_Next

Spec == Init /\ [][Next]_vars


(***************************************************************************)
(* Properties                                                              *)
(***************************************************************************)
Range(f) == {f[k] : k \in DOMAIN f}
Timed == prog \in {"benchmark", "throughput"}
SetupDone == raw_data # NoneV /\ fast_buffer # NoneV /\ query # NoneV
SchemaPassed == Len(table) = 3 /\ \A k \in 1..3 : table[k].status = "PASS"
SchemaFailed == "SCHEMA FAILURE" \in Range(out)

C2_SetupPrecedesTiming ==
    Timed => /\ (readings # <<>> => SetupDone)
             /\ (region # "none" => SetupDone)
             /\ ~setup_in_region

C2_Witness ==
    /\ prog = "throughput" /\ region = "mut" /\ dots["mut"] > 0
    /\ Len(readings) = 3 /\ SetupDone

\* C3: the standard path converts once per measured operation inside its
\* timed region (ITERATIONS times in run_throughput, once in run_benchmark),
\* each conversion building a new array from raw_data; the optimized path
\* converts nothing inside its timed region.
C3_ConversionPerOperation ==
    Timed =>
        /\ convs["mut"] = 0
        /\ (region = "std" /\ err = "none")
              => convs["std"] = dots["std"] + (IF pc \in {"T31", "B55"} THEN 1 ELSE 0)
        /\ (region = "std" /\ err = "none" /\ pc \in {"T31", "B55"})
              => /\ Val(converted_array).id # Val(fast_buffer).id
                 /\ Val(converted_array).data = ToPacked(Val(raw_data))
        /\ duration_std # NoneV
              => convs["std"] = (IF prog = "throughput" THEN ITERATIONS ELSE 1)

C3_Witness ==
    /\ prog = "throughput" /\ pc = "done"
    /\ convs["std"] = ITERATIONS /\ convs["mut"] = 0 /\ dots["mut"] = ITERATIONS

\* the inputs of every kernel call made so far, and the two regions' call counts
C4_InputsHold ==
    Timed =>
        /\ \A a \in {"std", "mut"} : \A k \in kernel_args[a] :
              /\ k.query = Val(query)
              /\ k.buffer.data = ToPacked(Val(raw_data))
        /\ duration_mut # NoneV => dots["std"] = dots["mut"]

\* C4: within one run both timed regions work on the same inputs: every
\* kernel call of either region is applied to a buffer holding exactly the
\* packed contents of raw_data and to the one query vector, both regions make
\* the same number of kernel calls, and raw_data, fast_buffer and query do
\* not change once the first clock reading has been taken.
C4_IdenticalInputs ==
    /\ C4_InputsHold
    /\ (Timed /\ readings # <<>>) => inputs_at_start = Some(dataVars)

C4_Witness ==
    /\ prog = "throughput" /\ pc = "done"
    /\ dots["std"] = ITERATIONS /\ dots["mut"] = ITERATIONS
    /\ kernel_args["std"] # {} /\ kernel_args["mut"] # {}
    /\ \E r \in Range(Val(fast_buffer).data) : \E c \in DOMAIN r : r[c] # 0

\* C5: the loose footprint run_memory_test reports is the outer container's
\* size plus the rows' sizes plus count * dimension * the size of a float
\* object on the host the script runs on.
C5_FootprintTracksHost ==
    (prog = "memory" /\ pc = "done")
        => Val(py_size_mb) =
              Ratio(Sizeof(Val(host), Val(py_data).outer)
                    + VECTORS * Getsizeof(Val(host), Val(py_data).row)
                    + VECTORS * DIMS * Val(host).floatSize,
                    1024 * 1024)

\* C6: when a step inside a timed region raises, the error leaves the entry
\* point unhandled, that region's duration is never recorded, and no row and
\* no results table has been emitted.
C6_ErrorInRegionHalts ==
    (Timed /\ err = "MemoryError" /\ region # "none")
        => /\ pc = "halt"
           /\ table = <<>>
           /\ Range(out) \cap {"table", "result", "conclusion"} = {}
           /\ (region = "std" => duration_std = NoneV)
           /\ (region = "mut" => duration_mut = NoneV)

C6_Witness ==
    /\ prog = "benchmark" /\ err = "MemoryError" /\ region = "mut"
    /\ duration_std # NoneV

\* C7: the schema check fails closed: a record missing a required field, one
\* whose vector has a length other than 1536, and one with a non-numeric
\* vector element are reported as failed; a record with a string id, 1536
\* numbers and an object payload is reported as passed; every checked record
\* is reported as exactly one of the two.
C7_SchemaFailsClosed ==
    (prog = "compliance" /\ pc \notin {"C39", "C45", "C55"}) =>
        LET r == Val(mock_request) IN
        /\ SchemaPassed # SchemaFailed
        /\ (r.kind = "object" /\ ("id" \notin r.fields \/ "vector" \notin r.fields))
              => SchemaFailed
        /\ (r.kind = "object" /\ "vector" \in r.fields /\ r.vecType = "array"
            /\ r.len # 1536) => SchemaFailed
        /\ (r.kind = "object" /\ "vector" \in r.fields /\ r.vecType = "array"
            /\ \E k \in r.odd : k <= r.len /\ r.oddType # "number") => SchemaFailed
        /\ (r.kind = "object" /\ r.fields = {"id", "vector", "payload"}
            /\ r.idType = "string" /\ r.vecType = "array" /\ r.len = 1536
            /\ (r.odd = {} \/ r.oddType = "number") /\ r.payloadType = "object")
              => SchemaPassed

C7_Witness ==
    /\ prog = "compliance" /\ pc = "done"
    /\ Val(mock_request).len = 1535 /\ Val(mock_request).odd = {}
    /\ SchemaFailed /\ ~SchemaPassed

\* C8: in run_throughput each region is one start reading, ITERATIONS kernel
\* calls and one stop reading; the total time is stop minus start and the
\* throughput put in the table is ITERATIONS over that total.
C8_ThroughputFromReadings ==
    prog = "throughput" =>
        /\ duration_std # NoneV
              => /\ Len(readings) >= 2
                 /\ dots["std"] = ITERATIONS
                 /\ Val(duration_std) = readings[2] - readings[1]
        /\ qps_std # NoneV => qps_std = Some(Ratio(ITERATIONS, readings[2] - readings[1]))
        /\ duration_mut # NoneV
              => /\ Len(readings) = 4
                 /\ dots["mut"] = ITERATIONS
                 /\ Val(duration_mut) = readings[4] - readings[3]
        /\ qps_mut # NoneV => qps_mut = Some(Ratio(ITERATIONS, readings[4] - readings[3]))
        /\ pc = "done"
              => /\ table[1].time = readings[2] - readings[1]
                 /\ table[1].qps = Ratio(ITERATIONS, readings[2] - readings[1])
                 /\ table[2].time = readings[4] - readings[3]
                 /\ table[2].qps = Ratio(ITERATIONS, readings[4] - readings[3])

C8_Witness ==
    /\ prog = "throughput" /\ pc = "done"
    /\ readings[1] > 0 /\ readings[3] > readings[2]
    /\ Val(qps_std).den > 0 /\ Val(qps_mut).den > 0

C10_KernelOnConvertedBuffer ==
    Timed =>
        /\ dots["std"] <= convs["std"]
        /\ \A k \in kernel_args["std"] :
              /\ k.buffer.id # Val(fast_buffer).id
              /\ (prog = "benchmark" => k.buffer = Val(converted_array))

====
